---- MODULE Spec2Model ----
(***************************************************************************)
(* Model of the orchestrator's executor (src/src/executor/executor.ts)     *)
(* with the retry helper (src/src/utils/retry.ts).  One run of             *)
(* Executor.execute on one task graph is modelled as a state machine: the  *)
(* coordinating loop is a program counter, every dispatched node has its   *)
(* own asynchronous execution (executeNode) that advances at its           *)
(* suspension points: rate-limit acquire, agent call, retry sleep.         *)
(***************************************************************************)
EXTENDS Integers, Sequences, FiniteSets, TLC

(* ------------------------------ bounds -------------------------------- *)
NumNodes == 3
MaxRetries == 2
\* withRetry on its own: the largest maxAttempts and the largest number of
\* leading failures of the retried operation.
MaxAttemptsBound == 3
MaxFailures == 3
\* Planner.plan on its own: the most nodes of a planner response.
MaxPlanNodes == 2

(* ------------------------- values of the model ------------------------ *)
(* Node ids are the numbers 1 .. n, in the order of graph.nodes.  An       *)
(* absent assignTo (undefined) is Unassigned; the empty string is a        *)
(* selector of its own, which the code resolves like an absent one but     *)
(* prints as it is.                                                        *)
Unassigned == "<undefined>"
Tasks == {"t1", "t2"}
OkOutputs == {"X", "Y"}
ErrorOutputs == {"boom"}
RaiseCauses == {"crash"}
(* Selectors a node may carry: none, a capability of the first agent, the  *)
(* name of the second agent, a name nobody answers to; and, for the graphs *)
(* of one node, the empty string as well.                                  *)
AssignChoices == {Unassigned, "cap", "a2", "zz"}
SingleAssignChoices == AssignChoices \cup {""}
PairRetries == {0, 1}

NoResult == [status |-> "none", output |-> ""]
Ok(out) == [status |-> "ok", output |-> out]
Err(out) == [status |-> "error", output |-> out]

Terminal == {"done", "failed", "skipped"}

(* What one invocation of agent.execute(node) can do: return a TaskResult  *)
(* (ok or error) or raise.                                                 *)
AgentOutcomes ==
  {[kind |-> "return", result |-> Ok(o), cause |-> ""] : o \in OkOutputs}
  \cup {[kind |-> "return", result |-> Err(e), cause |-> ""] : e \in ErrorOutputs}
  \cup {[kind |-> "raise", result |-> NoResult, cause |-> c] : c \in RaiseCauses}

(* String(settled.reason) for a raised Error with message `cause`.         *)
StringOf(cause) == "Error: " \o cause

(* ------------------------------ registry ------------------------------ *)
NoAgent == ""
Registry == << [name |-> "a1", capabilities |-> {"cap"}],
               [name |-> "a2", capabilities |-> {}] >>

(* The registries an executor is built with: the two agents, or none.      *)
Registries == {Registry, << >>}

pick(reg, selector) ==
  IF \E i \in 1 .. Len(reg) : reg[i].name = selector
    THEN selector
    ELSE IF \E i \in 1 .. Len(reg) : selector \in reg[i].capabilities
      THEN reg[CHOOSE i \in 1 .. Len(reg) :
                 /\ selector \in reg[i].capabilities
                 /\ \A j \in 1 .. (i - 1) :
                      selector \notin reg[j].capabilities].name
      ELSE NoAgent

(* executeNode: node.assignTo ? agents.pick(assignTo) : agents.list()[0]   *)
(* An absent assignTo and the empty string are both falsy.                 *)
ResolveAgent(reg, sel) ==
  IF sel # Unassigned /\ sel # "" THEN pick(reg, sel)
  ELSE IF Len(reg) > 0 THEN reg[1].name ELSE NoAgent

(* `No agent available for task "${node.id}" (requested:                   *)
(* ${node.assignTo ?? "any"})`: only an absent assignTo prints as any, the *)
(* empty string prints as itself.                                          *)
NoAgentMessage(id, sel) ==
  "No agent available for task \"" \o ToString(id) \o "\" (requested: "
    \o (IF sel = Unassigned THEN "any" ELSE sel) \o ")"

(* -------------------------------- cache ------------------------------- *)
Absent == "<absent>"
AgentNames == {Registry[i].name : i \in 1 .. Len(Registry)}
taskKey(task, agentName) == << task, agentName >>
CacheKeys == {taskKey(t, a) : t \in Tasks, a \in AgentNames}

VARIABLES
  agents,           \* this.agents: the registry, in registration order
  deps,             \* node.dependsOn
  task,             \* node.task
  assignTo,         \* node.assignTo ("" when absent)
  retries,          \* node.config.retries (0 when absent)
  maxConcurrency,   \* opts.maxConcurrency ?? config
  cacheEnabled,     \* cfg.cache.enabled
  rateLimitEnabled, \* cfg.rateLimit.enabled
  status,           \* node.status
  result,           \* node.result
  nodeResults,      \* the nodeResults record of execute
  pc,               \* position of execute
  batch,            \* the batch of the current iteration
  idx,              \* index into batch (dispatch loop, settle loop)
  exec,             \* the executeNode promise of each node
  aborted,          \* opts.abortSignal.aborted
  cache,            \* taskCache
  expired,          \* some entry of taskCache outlived the TTL in this run
  success,          \* ExecutionResult.success
  exit,             \* how the scheduling loop was left
  agentOutcomes,    \* what a call of agent.execute can do in this run
  iteration,        \* number of the current scheduling iteration
  abortIteration,   \* the iteration during which the signal was tripped
  hist,             \* observations of the run (per node)
  rt,               \* a call of withRetry: its parameters and locals
  pl                \* a call of Planner.plan: its inputs and position

vars == << agents, deps, task, assignTo, retries, maxConcurrency, cacheEnabled,
           rateLimitEnabled, status, result, nodeResults, pc, batch, idx,
           exec, aborted, cache, expired, success, exit, agentOutcomes,
           iteration, abortIteration, hist, rt, pl >>

(* What Executor.execute never writes: the graph's shape, the options and  *)
(* configuration, the agent's behaviour, and the state of the helpers      *)
(* that are checked on their own (withRetry, Planner.plan).                *)
graphVars == << agents, deps, task, assignTo, retries, maxConcurrency, cacheEnabled,
                rateLimitEnabled, agentOutcomes, rt, pl >>

(* graph.nodes: the nodes 1 .. n in the order of the sequence.             *)
Nodes == DOMAIN deps

(* ------------------------------ task graph ---------------------------- *)
RECURSIVE Closure(_, _, _)
Closure(d, S, k) ==
  IF k = 0 THEN S ELSE Closure(d, S \cup UNION {d[m] : m \in S}, k - 1)

(* Transitive dependency closure of node n.                                *)
DepClosure(d, n) == Closure(d, d[n], Cardinality(DOMAIN d))

Acyclic(d) == \A n \in DOMAIN d : n \notin DepClosure(d, n)

RECURSIVE FilterSeq(_, _, _)
FilterSeq(i, last, keep) ==
  IF i > last THEN << >>
  ELSE (IF i \in keep THEN << i >> ELSE << >>) \o FilterSeq(i + 1, last, keep)

(* readyNodes(graph): pending nodes whose dependencies are all done, in    *)
(* the order of graph.nodes.                                               *)
readyNodes(st, d) ==
  FilterSeq(1, Cardinality(DOMAIN d),
            {n \in DOMAIN d : st[n] = "pending" /\ \A m \in d[n] : st[m] = "done"})

isComplete(st) == \A n \in DOMAIN st : st[n] \in Terminal

(* skipDownstream(graph, failedId): every pending node that has failedId   *)
(* in its dependency closure becomes skipped.                              *)
skipDownstream(st, d, failedId) ==
  [n \in DOMAIN st |->
     IF st[n] = "pending" /\ failedId \in DepClosure(d, n)
       THEN "skipped" ELSE st[n]]

(* ------------------------------- executor ----------------------------- *)
Min(a, b) == IF a < b THEN a ELSE b

(* Mutation: the slice takes one node more than maxConcurrency.            *)
SliceOneMore(ready, k) == SubSeq(ready, 1, Min(Len(ready), k + 1))

(* ready.slice(0, maxConcurrency)                                          *)
Slice(ready, k) == SubSeq(ready, 1, Min(Len(ready), k))

(* Mutation: the abort branch leaves the pending nodes as they are.        *)
AbortSkipNothing(st) == st

(* Mutation: the abort branch skips every node that is not done.           *)
AbortSkipNotDone(st) ==
  [n \in DOMAIN st |-> IF st[n] # "done" THEN "skipped" ELSE st[n]]

(* The abort branch: every pending node becomes skipped.                   *)
AbortSkip(st) ==
  [n \in DOMAIN st |-> IF st[n] = "pending" THEN "skipped" ELSE st[n]]

(* Mutation: the signal is not looked at.                                  *)
ShouldAbortNever(ab) == FALSE

(* opts?.abortSignal?.aborted at the top of an iteration.                  *)
ShouldAbort(ab) == ab

(* Mutation: the batch is taken from the pending nodes, whatever the       *)
(* status of their dependencies.                                           *)
BatchOfPending(st, d, k) ==
  Slice(FilterSeq(1, Cardinality(DOMAIN d),
                  {n \in DOMAIN d : st[n] = "pending"}), k)

(* The batch of an iteration: the first maxConcurrency ready nodes.        *)
Batch(st, d, k) == Slice(readyNodes(st, d), k)

(* Mutation: a node whose result is an error goes back to pending.         *)
SettledStatusRequeue(r) == IF r.status = "ok" THEN "done" ELSE "pending"

(* Mutation: a node whose result is not ok is not marked failed.           *)
SettledStatusStaysRunning(r) == IF r.status = "ok" THEN "done" ELSE "running"

(* Status of a node whose execution settled with result r.                 *)
SettledStatus(r) == IF r.status = "ok" THEN "done" ELSE "failed"

(* Mutation: a failed node's descendants are not skipped.                  *)
SettleStatusNoSkip(st, d, n, r) == [st EXCEPT ![n] = SettledStatus(r)]

(* The settle loop's writes of node statuses for node n with result r: the *)
(* node becomes done, or failed with its pending descendants skipped.      *)
SettleStatus(st, d, n, r) ==
  IF r.status = "ok"
    THEN [st EXCEPT ![n] = SettledStatus(r)]
    ELSE skipDownstream([st EXCEPT ![n] = SettledStatus(r)], d, n)

(* Mutation: the result is never stored.                                   *)
CacheStoreNever(c, enabled, key, r) == c

(* Mutation: the output of an error result is stored as well.              *)
CacheStoreAnyResult(c, enabled, key, r) ==
  IF enabled THEN [c EXCEPT ![key] = r.output] ELSE c

(* taskCache after executeNode got result r for the key: only an ok result *)
(* is stored, and only while the cache is enabled.                         *)
CacheStore(c, enabled, key, r) ==
  IF enabled /\ r.status = "ok" THEN [c EXCEPT ![key] = r.output] ELSE c

(* Mutation: success only asks that no node failed.                        *)
SuccessNoFailure(st) == \A n \in DOMAIN st : st[n] # "failed"

(* graph.nodes.every((n) => n.status === "done")                           *)
Success(st) == \A n \in DOMAIN st : st[n] = "done"

Idle == [pos |-> "idle", attempt |-> 0, result |-> NoResult, reason |-> ""]
Fulfilled(r) == [pos |-> "fulfilled", attempt |-> 0, result |-> r, reason |-> ""]

(* The result the settle loop records for a settled promise: its value     *)
(* when fulfilled, error(String(reason)) when rejected.                    *)
SettledResult(e) ==
  IF e.pos = "fulfilled" THEN e.result ELSE Err(StringOf(e.reason))

(* Mutation: Promise.all, which rejects as soon as one promise of the      *)
(* batch rejects, so that execute throws.                                  *)
PromiseAll(b, ex) ==
  IF \E i \in 1 .. Len(b) : ex[b[i]].pos = "rejected" THEN "threw"
  ELSE IF \A i \in 1 .. Len(b) : ex[b[i]].pos = "fulfilled" THEN "settle"
  ELSE "await"

(* Mutation: execute resumes as soon as one promise of the batch has       *)
(* settled.                                                                *)
AllSettledAny(b, ex) ==
  IF \E i \in 1 .. Len(b) : ex[b[i]].pos \in {"fulfilled", "rejected"}
    THEN "settle" ELSE "await"

(* Promise.allSettled(promises): resumes when every promise of the batch   *)
(* is fulfilled or rejected, and never rejects itself.                     *)
AllSettled(b, ex) ==
  IF \A i \in 1 .. Len(b) : ex[b[i]].pos \in {"fulfilled", "rejected"}
    THEN "settle" ELSE "await"

(* What the run showed of a node: onNodeStart and onNodeEnd calls, the     *)
(* result handed to onNodeEnd, agent invocations and how many of them     *)
(* raised, acquires, whether the cache answered, the iteration that        *)
(* dispatched it, and whether some invocation of the agent did not return  *)
(* ok.                                                                     *)
NoHist == [starts |-> 0, ends |-> 0, ended |-> NoResult, calls |-> 0,
           raises |-> 0, acquires |-> 0, hit |-> FALSE, iter |-> 0,
           notOk |-> FALSE]

(* Mutation: the rejected branch of the settle loop does not record the    *)
(* synthetic result in nodeResults.                                        *)
RecordResultFulfilledOnly(nr, n, e, r) ==
  IF e.pos = "fulfilled" THEN [nr EXCEPT ![n] = r] ELSE nr

(* nodeResults[node.id] = result, in the fulfilled and in the rejected     *)
(* branch of the settle loop.                                              *)
RecordResult(nr, n, e, r) == [nr EXCEPT ![n] = r]

(* Mutation: the rejected branch of the settle loop does not call          *)
(* onNodeEnd.                                                              *)
OnNodeEndFulfilledOnly(h, e, r) ==
  IF e.pos = "fulfilled" THEN [h EXCEPT !.ends = @ + 1, !.ended = r] ELSE h

(* opts?.onNodeEnd?.(node.id, result): called in each of the three         *)
(* branches of the settle loop, with the result just recorded.             *)
OnNodeEnd(h, e, r) == [h EXCEPT !.ends = @ + 1, !.ended = r]

(* ------------------------ withRetry (retry.ts) ------------------------ *)
(* No call of withRetry is in progress.  lastError = 0 stands for the      *)
(* undefined initial value of `let lastError`.                             *)
RetryIdle == [pos |-> "idle", maxAttempts |-> 0, baseDelayMs |-> 0,
              maxDelayMs |-> 0, failures |-> 0, attempt |-> 0, calls |-> 0,
              lastError |-> 0, thrown |-> 0, value |-> "", waits |-> << >>]

(* Mutation: the delay is not capped by maxDelayMs.                        *)
RetryDelayUncapped(attempt, baseDelayMs, maxDelayMs) ==
  baseDelayMs * 2 ^ (attempt - 1)

(* Math.min(baseDelayMs * 2 ** (attempt - 1), maxDelayMs)                  *)
RetryDelay(attempt, baseDelayMs, maxDelayMs) ==
  Min(baseDelayMs * 2 ^ (attempt - 1), maxDelayMs)

(* Mutation: the loop gives up one attempt early.                          *)
IsLastAttemptEarly(attempt, maxAttempts) == attempt = maxAttempts - 1

(* if (attempt === maxAttempts) break;                                     *)
IsLastAttempt(attempt, maxAttempts) == attempt = maxAttempts

(* ------------------------ Planner.plan (planner.ts) -------------------- *)
(* No call of plan is in progress.                                         *)
NoLlm == [kind |-> "none", raw |-> << >>, error |-> ""]
PlannerIdle == [pos |-> "idle", hasAgent |-> FALSE, hasGateway |-> FALSE,
                llm |-> NoLlm, raw |-> << >>, nodes |-> << >>, error |-> ""]

(* ----------------------------- the inputs ----------------------------- *)
(* Every acyclic dependency relation on the nodes 1 .. n (ids are unique   *)
(* and no dependency dangles by construction of the function).             *)
Dags(n) == {d \in [1 .. n -> SUBSET (1 .. n)] : Acyclic(d)}

OnlyOk == {[kind |-> "return", result |-> Ok("X"), cause |-> ""]}

(* An agent with one ok output, one error output and one way to raise.     *)
OneOfEach == {o \in AgentOutcomes : o.result.output # "Y"}

(* The graphs of the scheduling runs: every DAG on NumNodes nodes, the     *)
(* nodes alike (same task, no selector, no retries), every batch size,     *)
(* the cache on or off.                                                    *)
InitScheduling ==
  /\ agents = Registry
  /\ deps \in Dags(NumNodes)
  /\ task = [n \in 1 .. NumNodes |-> "t1"]
  /\ assignTo = [n \in 1 .. NumNodes |-> Unassigned]
  /\ retries = [n \in 1 .. NumNodes |-> 0]
  /\ maxConcurrency \in 1 .. NumNodes
  /\ cacheEnabled \in BOOLEAN
  /\ rateLimitEnabled = FALSE
  /\ agentOutcomes = OneOfEach

(* The graphs of two nodes: every dependency relation between them, every  *)
(* task, selector and retry count (none or one) per node, every            *)
(* configuration.  The task names are interchangeable, so node 1 is given  *)
(* "t1".                                                                   *)
InitPair ==
  /\ agents = Registry
  /\ deps \in Dags(2)
  /\ task \in {t \in [1 .. 2 -> Tasks] : t[1] = "t1"}
  /\ assignTo \in [1 .. 2 -> AssignChoices]
  /\ retries \in [1 .. 2 -> PairRetries]
  /\ maxConcurrency \in 1 .. 2
  /\ cacheEnabled \in BOOLEAN
  /\ rateLimitEnabled \in BOOLEAN
  /\ agentOutcomes = AgentOutcomes

(* The graphs of one node: every selector (the empty string included),     *)
(* every retry count up to MaxRetries, every configuration, with the two   *)
(* agents registered or with no agent registered.                          *)
InitSingle ==
  /\ agents \in Registries
  /\ deps = [n \in 1 .. 1 |-> {}]
  /\ task = [n \in 1 .. 1 |-> "t1"]
  /\ assignTo \in [1 .. 1 -> SingleAssignChoices]
  /\ retries \in [1 .. 1 -> 0 .. MaxRetries]
  /\ maxConcurrency = 1
  /\ cacheEnabled \in BOOLEAN
  /\ rateLimitEnabled \in BOOLEAN
  /\ agentOutcomes = AgentOutcomes

(* Scenario S6 of the specification: ten independent nodes, batches of     *)
(* two, an agent that returns ok.                                          *)
InitTen ==
  /\ agents = Registry
  /\ deps = [n \in 1 .. 10 |-> {}]
  /\ task = [n \in 1 .. 10 |-> "t1"]
  /\ assignTo = [n \in 1 .. 10 |-> Unassigned]
  /\ retries = [n \in 1 .. 10 |-> 0]
  /\ maxConcurrency = 2
  /\ cacheEnabled = FALSE
  /\ rateLimitEnabled = FALSE
  /\ agentOutcomes = OnlyOk

(* Scenarios S2 and S3 of the specification: the diamond                   *)
(* A -> {B, C} -> D and the tree A -> B -> C, A -> D (A, B, C, D = 1..4).  *)
Diamond == [n \in 1 .. 4 |-> CASE n = 1 -> {} [] n = 4 -> {2, 3} [] OTHER -> {1}]
Tree == [n \in 1 .. 4 |-> CASE n = 1 -> {} [] n = 3 -> {2} [] OTHER -> {1}]

InitScenario ==
  /\ agents = Registry
  /\ deps \in {Diamond, Tree}
  /\ task = [n \in 1 .. 4 |-> "t1"]
  /\ assignTo = [n \in 1 .. 4 |-> Unassigned]
  /\ retries = [n \in 1 .. 4 |-> 0]
  /\ maxConcurrency \in 1 .. 2
  /\ cacheEnabled = FALSE
  /\ rateLimitEnabled = FALSE
  /\ agentOutcomes = OneOfEach

Init ==
  /\ InitScheduling \/ InitPair \/ InitSingle \/ InitScenario \/ InitTen
  /\ status = [n \in Nodes |-> "pending"]
  /\ result = [n \in Nodes |-> NoResult]
  /\ nodeResults = [n \in Nodes |-> NoResult]
  /\ pc = "loop"
  /\ batch = << >>
  /\ idx = 0
  /\ exec = [n \in Nodes |-> Idle]
  /\ aborted = FALSE
  /\ cache = [k \in CacheKeys |-> Absent]
  /\ expired = FALSE
  /\ success = FALSE
  /\ exit = "none"
  /\ iteration = 0
  /\ abortIteration = 0
  /\ hist = [n \in Nodes |-> NoHist]
  /\ rt = RetryIdle
  /\ pl = PlannerIdle

(* Top of the while loop: completion test, cancellation check, ready set,  *)
(* batch selection.                                                        *)
LoopHead ==
  /\ pc = "loop"
  /\ IF isComplete(status)
       THEN /\ pc' = "finish"
            /\ exit' = "complete"
            /\ UNCHANGED << status, batch, idx, iteration >>
       ELSE IF ShouldAbort(aborted)
         THEN /\ status' = AbortSkip(status)
              /\ pc' = "finish"
              /\ exit' = "abort"
              /\ UNCHANGED << batch, idx, iteration >>
         ELSE IF readyNodes(status, deps) = << >>
           THEN /\ pc' = "finish"
                /\ exit' = "deadlock"
                /\ UNCHANGED << status, batch, idx, iteration >>
           ELSE /\ batch' = Batch(status, deps, maxConcurrency)
                /\ idx' = 1
                /\ pc' = "dispatch"
                /\ iteration' = iteration + 1
                /\ UNCHANGED << status, exit >>
  /\ UNCHANGED << graphVars, result, nodeResults, exec, aborted, cache,
                  expired, success, abortIteration, hist >>

(* Mutation: the acquire is made inside run, before every attempt.         *)
RunEntryAcquireEach(enabled, attempt) == IF enabled THEN "acquire" ELSE "call"

(* Where attempt number `attempt` of a node starts: at the acquire of the  *)
(* rate limiter for the first attempt when rate limiting is enabled (the   *)
(* acquire precedes run), at the call of the agent otherwise (withRetry    *)
(* calls run, which is agent.execute alone).                               *)
RunEntry(enabled, attempt) ==
  IF enabled /\ attempt = 1 THEN "acquire" ELSE "call"

(* The agent is invoked for node n (attempt a): agent.execute(node).       *)
Invoke(ex, n, a) ==
  [ex EXCEPT ![n] = [pos |-> "call", attempt |-> a, result |-> NoResult,
                     reason |-> ""]]

(* taskCache.get(key): the value when an entry exists and is younger than  *)
(* the TTL (fresh), undefined otherwise.                                   *)
CacheGet(c, key, fresh) == IF fresh THEN c[key] ELSE Absent

(* batch.map(node => executeNode(node)): the synchronous part of           *)
(* executeNode for the idx-th node of the batch, up to its first await.    *)
(* `fresh` tells whether an entry the cache holds for the node is younger  *)
(* than the TTL at this moment; a stale entry stays stale.                 *)
StartNode(fresh) ==
  /\ pc = "dispatch"
  /\ idx <= Len(batch)
  /\ LET n == batch[idx]
         agent == ResolveAgent(agents, assignTo[n])
         key == taskKey(task[n], agent)
         consulted == agent # NoAgent /\ cacheEnabled
         cached == IF consulted THEN CacheGet(cache, key, fresh) ELSE Absent
         h == [hist[n] EXCEPT !.starts = @ + 1, !.iter = iteration]
     IN /\ status' = [status EXCEPT ![n] = "running"]
        /\ IF consulted /\ cache[key] # Absent /\ ~fresh
             THEN /\ cache' = [cache EXCEPT ![key] = Absent]
                  /\ expired' = TRUE
             ELSE UNCHANGED << cache, expired >>
        /\ IF agent = NoAgent
             THEN /\ exec' = [exec EXCEPT ![n] =
                                Fulfilled(Err(NoAgentMessage(n, assignTo[n])))]
                  /\ hist' = [hist EXCEPT ![n] = h]
             ELSE IF cacheEnabled /\ cached # Absent
               THEN /\ exec' = [exec EXCEPT ![n] = Fulfilled(Ok(cached))]
                    /\ hist' = [hist EXCEPT ![n] = [h EXCEPT !.hit = TRUE]]
               ELSE IF RunEntry(rateLimitEnabled, 1) = "acquire"
                 THEN /\ exec' = [exec EXCEPT ![n].pos = "acquire",
                                             ![n].attempt = 1]
                      /\ hist' = [hist EXCEPT ![n] =
                                    [h EXCEPT !.acquires = @ + 1]]
                 ELSE /\ exec' = Invoke(exec, n, 1)
                      /\ hist' = [hist EXCEPT ![n] = [h EXCEPT !.calls = @ + 1]]
  /\ idx' = idx + 1
  /\ UNCHANGED << graphVars, result, nodeResults, pc, batch, aborted,
                  success, exit, iteration, abortIteration >>

(* The map is over: execute awaits Promise.allSettled(promises).           *)
AwaitBatch ==
  /\ pc = "dispatch"
  /\ idx > Len(batch)
  /\ pc' = "await"
  /\ UNCHANGED << graphVars, status, result, nodeResults, batch, idx, exec,
                  aborted, cache, expired, success, exit, iteration,
                  abortIteration, hist >>

(* agentRateLimiters.acquire(agent.name) resolves; the agent is invoked.   *)
Acquire(n) ==
  /\ pc = "await"
  /\ exec[n].pos = "acquire"
  /\ exec' = Invoke(exec, n, exec[n].attempt)
  /\ hist' = [hist EXCEPT ![n].calls = @ + 1]
  /\ UNCHANGED << graphVars, status, result, nodeResults, pc, batch, idx,
                  aborted, cache, expired, success, exit, iteration,
                  abortIteration >>

(* Mutation: maxAttempts is the retry count itself.                        *)
MaxAttemptsIsRetries(n) == retries[n]

(* withRetry(run, { maxAttempts: retries + 1 }): the attempts allowed for  *)
(* node n.                                                                 *)
MaxAttempts(n) == retries[n] + 1

(* The invocation of the agent for node n completes with outcome o.        *)
AgentReturn(n, o) ==
  /\ pc = "await"
  /\ exec[n].pos = "call"
  /\ hist' = [hist EXCEPT ![n].notOk = @ \/ o.result.status # "ok",
                          ![n].raises = IF o.kind = "raise" THEN @ + 1 ELSE @]
  /\ IF o.kind = "return"
       THEN /\ exec' = [exec EXCEPT ![n] = Fulfilled(o.result)]
            /\ cache' = CacheStore(cache, cacheEnabled,
                                   taskKey(task[n], ResolveAgent(agents, assignTo[n])),
                                   o.result)
       ELSE /\ cache' = cache
            /\ IF retries[n] > 0 /\ ~IsLastAttempt(exec[n].attempt, MaxAttempts(n))
                 THEN exec' = [exec EXCEPT ![n].pos = "sleep", ![n].reason = o.cause]
                 ELSE exec' = [exec EXCEPT ![n].pos = "rejected",
                                           ![n].reason = o.cause]
  /\ UNCHANGED << graphVars, status, result, nodeResults, pc, batch, idx,
                  aborted, expired, success, exit, iteration, abortIteration >>

(* withRetry: the backoff sleep of node n is over, the next attempt runs.  *)
RetryWake(n) ==
  /\ pc = "await"
  /\ exec[n].pos = "sleep"
  /\ IF RunEntry(rateLimitEnabled, exec[n].attempt + 1) = "acquire"
       THEN /\ exec' = [exec EXCEPT ![n].pos = "acquire", ![n].attempt = @ + 1]
            /\ hist' = [hist EXCEPT ![n].acquires = @ + 1]
       ELSE /\ exec' = Invoke(exec, n, exec[n].attempt + 1)
            /\ hist' = [hist EXCEPT ![n].calls = @ + 1]
  /\ UNCHANGED << graphVars, status, result, nodeResults, pc, batch, idx,
                  aborted, cache, expired, success, exit, iteration,
                  abortIteration >>

(* Promise.allSettled resolves: the settle loop starts.                    *)
BatchSettled ==
  /\ pc = "await"
  /\ AllSettled(batch, exec) # "await"
  /\ pc' = AllSettled(batch, exec)
  /\ idx' = 1
  /\ UNCHANGED << graphVars, status, result, nodeResults, batch, exec,
                  aborted, cache, expired, success, exit, iteration,
                  abortIteration, hist >>

(* One turn of the settle loop, for the idx-th node of the batch.          *)
SettleNode ==
  /\ pc = "settle"
  /\ idx <= Len(batch)
  /\ LET n == batch[idx]
         r == SettledResult(exec[n])
     IN /\ result' = [result EXCEPT ![n] = r]
        /\ nodeResults' = RecordResult(nodeResults, n, exec[n], r)
        /\ status' = SettleStatus(status, deps, n, r)
        /\ hist' = [hist EXCEPT ![n] = OnNodeEnd(@, exec[n], r)]
  /\ idx' = idx + 1
  /\ pc' = IF idx = Len(batch) THEN "loop" ELSE "settle"
  /\ UNCHANGED << graphVars, batch, exec, aborted, cache, expired, success,
                  exit, iteration, abortIteration >>

(* After the loop: success is computed and execute returns.                *)
Return ==
  /\ pc = "finish"
  /\ success' = Success(status)
  /\ pc' = "returned"
  /\ UNCHANGED << graphVars, status, result, nodeResults, batch, idx, exec,
                  aborted, cache, expired, exit, iteration, abortIteration,
                  hist >>

(* The abort signal is tripped: by the caller while execute is suspended,  *)
(* or by a lifecycle callback during the dispatch or the settle loop.      *)
Abort ==
  /\ pc \in {"loop", "dispatch", "await", "settle"}
  /\ ~aborted
  /\ aborted' = TRUE
  /\ abortIteration' = iteration
  /\ UNCHANGED << graphVars, status, result, nodeResults, pc, batch, idx,
                  exec, cache, expired, success, exit, iteration, hist >>

Next ==
  \/ LoopHead
  \/ \E fresh \in BOOLEAN : StartNode(fresh)
  \/ AwaitBatch
  \/ \E n \in Nodes : Acquire(n)
  \/ \E n \in Nodes, o \in agentOutcomes : AgentReturn(n, o)
  \/ \E n \in Nodes : RetryWake(n)
  \/ BatchSettled
  \/ SettleNode
  \/ Return
  \/ Abort

Spec == Init /\ [][Next]_vars

(* Every step but the tripping of the signal: the steps of execute and of  *)
(* the node executions, each of which the event loop runs once enabled     *)
(* (every agent call, acquire and sleep completes).                        *)
Progress ==
  \/ LoopHead
  \/ \E fresh \in BOOLEAN : StartNode(fresh)
  \/ AwaitBatch
  \/ \E n \in Nodes : Acquire(n)
  \/ \E n \in Nodes, o \in agentOutcomes : AgentReturn(n, o)
  \/ \E n \in Nodes : RetryWake(n)
  \/ BatchSettled
  \/ SettleNode
  \/ Return

FairSpec == Spec /\ WF_vars(Progress)

(* ------------------------------ properties ---------------------------- *)
Dispatched(n) == hist[n].starts > 0
Settled(n) == hist[n].ends > 0
Descendants(x) == {y \in Nodes : x \in DepClosure(deps, y)}
WithStatus(s) == {n \in Nodes : status[n] = s}

(* C1: at-most-one execution per node.  No node is dispatched (leaves      *)
(* pending for running, onNodeStart) more than once, and a node that was   *)
(* dispatched is never pending again.                                      *)
C1_AtMostOneExecution ==
  \A n \in Nodes :
    /\ hist[n].starts <= 1
    /\ Dispatched(n) => status[n] # "pending"

(* A run in which three nodes were dispatched, one of them failed, and     *)
(* execute returned.                                                       *)
C1_Witness ==
  /\ pc = "returned"
  /\ Cardinality({n \in Nodes : hist[n].starts = 1}) >= 3
  /\ \E n \in Nodes : status[n] = "failed"

(* C2: dependency order.  A node that is running or done has all its       *)
(* dependencies done.                                                      *)
C2_DependencyOrder ==
  \A n \in Nodes :
    status[n] \in {"running", "done"} => \A m \in deps[n] : status[m] = "done"

(* The diamond: D is running, after B and C were dispatched together and   *)
(* are done.                                                               *)
C2_Witness ==
  /\ deps = Diamond
  /\ status[4] = "running"
  /\ status[2] = "done" /\ status[3] = "done"
  /\ hist[2].iter = hist[3].iter

(* C3: bounded parallelism.  The number of running nodes never exceeds     *)
(* maxConcurrency.                                                         *)
C3_BoundedParallelism == Cardinality(WithStatus("running")) <= maxConcurrency

(* maxConcurrency nodes are running while a further node is ready.         *)
C3_Witness ==
  /\ pc = "await"
  /\ maxConcurrency >= 2
  /\ Cardinality(WithStatus("running")) = maxConcurrency
  /\ readyNodes(status, deps) # << >>

(* C4: failure propagation.  When execute has returned, every node that    *)
(* has a failed or skipped node in its dependency closure is terminal and  *)
(* not done, the descendants of a failed node are skipped; in the tree     *)
(* A -> B -> C, A -> D with A returning error("boom"), A is failed, B, C   *)
(* and D are skipped, success is false and A's result carries "boom".      *)
C4_FailurePropagation ==
  pc = "returned" =>
    /\ \A x \in Nodes : status[x] \in {"failed", "skipped"} =>
         \A y \in Descendants(x) :
           /\ status[y] \in Terminal \ {"done"}
           /\ status[x] = "failed" => status[y] = "skipped"
    /\ (deps = Tree /\ result[1] = Err("boom")) =>
         /\ status = [n \in 1 .. 4 |-> IF n = 1 THEN "failed" ELSE "skipped"]
         /\ ~success
         /\ nodeResults[1].output = "boom"

(* Scenario S3 has run to its end.                                         *)
C4_Witness ==
  /\ pc = "returned"
  /\ deps = Tree
  /\ result[1] = Err("boom")
  /\ status[3] = "skipped"

(* C5: exception containment.  execute never throws; a node whose          *)
(* execution rejected (the agent raised, with or without retries) is,      *)
(* once settled, failed with the result error(String(cause)); and when     *)
(* execute has returned every such node is settled, its descendants are    *)
(* skipped, the nodes dispatched in the same batch are settled as done or  *)
(* failed with their own results, and the loop was left normally.          *)
C5_ExceptionContainment ==
  /\ pc # "threw"
  /\ \A n \in Nodes : exec[n].pos = "rejected" =>
       /\ Settled(n) =>
            /\ status[n] = "failed"
            /\ result[n] = Err(StringOf(exec[n].reason))
            /\ nodeResults[n] = result[n]
       /\ pc = "returned" =>
            /\ Settled(n)
            /\ exit \in {"complete", "abort"}
            /\ \A y \in Descendants(n) : status[y] = "skipped"
            /\ \A m \in Nodes : (Dispatched(m) /\ hist[m].iter = hist[n].iter) =>
                 /\ hist[m].ends = 1
                 /\ status[m] \in {"done", "failed"}
                 /\ (exec[m].pos = "fulfilled" =>
                       /\ result[m] = exec[m].result
                       /\ status[m] = SettledStatus(exec[m].result))

(* A node with retries raised on every attempt, its batch sibling returned *)
(* ok, and execute returned.                                               *)
C5_Witness ==
  /\ pc = "returned"
  /\ \E n, m \in Nodes :
       /\ n # m
       /\ exec[n].pos = "rejected" /\ retries[n] > 0
       /\ hist[m].iter = hist[n].iter
       /\ status[m] = "done"

(* C6: termination.  With every agent call, acquire and sleep completing,  *)
(* execute eventually returns, and then every node is terminal.            *)
C6_Termination == <>(pc = "returned" /\ \A n \in Nodes : status[n] \in Terminal)

(* execute returned from the abort branch, with nodes skipped by it.       *)
C6_Witness ==
  /\ pc = "returned"
  /\ exit = "abort"
  /\ \E n \in Nodes : status[n] = "skipped" /\ deps[n] = {}
  /\ \A n \in Nodes : status[n] \in Terminal

(* Nodes with the same work: identical task and identical assignTo, which  *)
(* resolves to an agent.                                                   *)
SameWork(n, m) ==
  /\ task[n] = task[m]
  /\ assignTo[n] = assignTo[m]
  /\ ResolveAgent(agents, assignTo[n]) # NoAgent

(* The cache key of node n: Cache.taskKey(node.task, agent.name).          *)
KeyOf(n) == taskKey(task[n], ResolveAgent(agents, assignTo[n]))

(* The nodes whose (task, agent) pair is that of node n.                   *)
SamePair(n) ==
  {m \in Nodes : ResolveAgent(agents, assignTo[m]) # NoAgent /\ KeyOf(m) = KeyOf(n)}

RECURSIVE SumCalls(_)
SumCalls(S) ==
  IF S = {} THEN 0
  ELSE LET n == CHOOSE x \in S : TRUE IN hist[n].calls + SumCalls(S \ {n})

(* Invocations of the agent for the (task, agent) pair of node n.          *)
PairCalls(n) == SumCalls(SamePair(n))

(* A run of S4's kind: cache enabled, no entry outlived the TTL, no abort, *)
(* every node resolves an agent and every agent call returned ok.          *)
CacheRun ==
  /\ pc = "returned"
  /\ cacheEnabled /\ ~expired /\ ~aborted
  /\ \A n \in Nodes : ~hist[n].notOk /\ ResolveAgent(agents, assignTo[n]) # NoAgent

(* C7 as claimed: in such a run, for two nodes with the same work the      *)
(* agent is invoked exactly once for the pair and both nodes are done      *)
(* with the same output, whatever the dependency relation between them.    *)
C7_CacheExactlyOnce ==
  CacheRun =>
    \A n1, n2 \in Nodes : (n1 # n2 /\ SameWork(n1, n2)) =>
      /\ PairCalls(n1) = 1
      /\ status[n1] = "done" /\ status[n2] = "done"
      /\ result[n1].output = result[n2].output

(* The nodes with n's (task, agent) pair that were dispatched in the first *)
(* iteration that dispatched one of them.                                  *)
FirstBatch(n) ==
  {m \in SamePair(n) : \A k \in SamePair(n) : hist[m].iter <= hist[k].iter}

(* C7 amended: in such a run, of the nodes with the same (task, agent)     *)
(* pair those dispatched in the first batch that holds one of them each    *)
(* invoke the agent once and the later ones never, and all of them are     *)
(* done.  So the agent is invoked exactly once for the pair, and the       *)
(* outputs are the same, when that first batch holds one such node only.   *)
C7_CacheOncePerFirstBatch ==
  CacheRun =>
    \A n1, n2 \in Nodes : (n1 # n2 /\ SameWork(n1, n2)) =>
      /\ status[n1] = "done" /\ status[n2] = "done"
      /\ hist[n1].calls = (IF n1 \in FirstBatch(n1) THEN 1 ELSE 0)
      /\ PairCalls(n1) = Cardinality(FirstBatch(n1))
      /\ Cardinality(FirstBatch(n1)) = 1 =>
           result[n1].output = result[n2].output

(* Two independent nodes with the same work ran in different batches: one  *)
(* invocation of the agent, the second node served from the cache.         *)
C7_Witness ==
  /\ CacheRun
  /\ \E n1, n2 \in Nodes :
       /\ n1 # n2 /\ SameWork(n1, n2)
       /\ deps[n1] = {} /\ deps[n2] = {}
       /\ hist[n1].iter < hist[n2].iter
       /\ hist[n1].calls = 1 /\ hist[n2].calls = 0
       /\ PairCalls(n1) = 1
       /\ result[n2] = result[n1] /\ status[n2] = "done"

(* C8: cancellation.  Once the signal is tripped no node is dispatched in  *)
(* a later iteration; when execute has returned after that, the nodes that *)
(* were dispatched are settled as done or failed, no node is pending, and  *)
(* success is false if a node is skipped.  For ten independent nodes,      *)
(* batches of two, ok results and the signal tripped in the first          *)
(* iteration, exactly 2 nodes are done and 8 skipped.                      *)
C8_Cancellation ==
  /\ aborted => \A n \in Nodes : Dispatched(n) => hist[n].iter <= abortIteration
  /\ (pc = "returned" /\ aborted) =>
       /\ \A n \in Nodes :
            IF Dispatched(n)
              THEN status[n] \in {"done", "failed"} /\ Settled(n)
              ELSE status[n] = "skipped"
       /\ (WithStatus("skipped") # {}) => ~success
       /\ exit \in {"abort", "complete"}
  /\ (pc = "returned" /\ aborted /\ abortIteration = 1
        /\ Cardinality(Nodes) = 10) =>
       /\ Cardinality(WithStatus("done")) = 2
       /\ Cardinality(WithStatus("skipped")) = 8
       /\ ~success

(* Scenario S6 has run to its end: the signal was tripped once the first   *)
(* batch was settled.                                                      *)
C8_Witness ==
  /\ pc = "returned"
  /\ Cardinality(Nodes) = 10
  /\ aborted /\ abortIteration = 1
  /\ status[1] = "done" /\ status[2] = "done" /\ status[10] = "skipped"

(* C9: success flag.  When execute has returned, success is true exactly   *)
(* when every node is done.                                                *)
C9_SuccessFlag ==
  pc = "returned" => (success <=> \A n \in Nodes : status[n] = "done")

(* execute returned from the abort branch: some nodes done, the others     *)
(* skipped, none failed.                                                   *)
C9_Witness ==
  /\ pc = "returned"
  /\ exit = "abort"
  /\ ~success
  /\ WithStatus("done") # {}
  /\ WithStatus("failed") = {}

AllowedTransitions ==
  { << "pending", "running" >>, << "running", "done" >>,
    << "running", "failed" >>, << "pending", "skipped" >> }

(* C10: node state machine.  Every change of a node's status is one of     *)
(* pending->running, running->done, running->failed, pending->skipped; so  *)
(* a terminal node never changes again.                                    *)
C10_NodeStateMachine ==
  [][\A n \in Nodes :
       status'[n] # status[n] => << status[n], status'[n] >> \in AllowedTransitions]_vars

(* The settle loop has marked the first node of a batch failed and         *)
(* skipped a descendant of it, while its batch sibling is still running.   *)
C10_Witness ==
  /\ pc = "settle"
  /\ idx = 2 /\ Len(batch) >= 2
  /\ status[batch[1]] = "failed"
  /\ status[batch[2]] = "running"
  /\ \E y \in Descendants(batch[1]) :
       status[y] = "skipped" /\ batch[2] \in deps[y]

(* ====================== withRetry checked on its own =================== *)
(* The delays handed to withRetry (milliseconds): bases and caps chosen so *)
(* that the doubling stays below the cap, meets it, and exceeds it.        *)
BaseDelays == {1, 3}
MaxDelays == {2, 4, 100}

(* The retried operation: its i-th invocation raises error number i while  *)
(* i <= failures, and returns FnValue afterwards.                          *)
FnValue == "V"
FnOutcome(call, failures) ==
  IF call <= failures THEN [kind |-> "raise", error |-> call, value |-> ""]
  ELSE [kind |-> "return", error |-> 0, value |-> FnValue]

(* Executor.execute is not running: the empty graph, already returned.     *)
ExecutorParked ==
  /\ agents = Registry
  /\ deps = << >> /\ task = << >> /\ assignTo = << >> /\ retries = << >>
  /\ maxConcurrency = 1 /\ cacheEnabled = FALSE /\ rateLimitEnabled = FALSE
  /\ agentOutcomes = OnlyOk
  /\ status = << >> /\ result = << >> /\ nodeResults = << >>
  /\ pc = "returned" /\ batch = << >> /\ idx = 0 /\ exec = << >>
  /\ aborted = FALSE /\ cache = [k \in CacheKeys |-> Absent]
  /\ expired = FALSE /\ success = TRUE /\ exit = "complete"
  /\ iteration = 0 /\ abortIteration = 0 /\ hist = << >>

executorVars == << agents, deps, task, assignTo, retries, maxConcurrency,
                   cacheEnabled, rateLimitEnabled, agentOutcomes, status,
                   result, nodeResults, pc, batch, idx, exec, aborted, cache,
                   expired, success, exit, iteration, abortIteration, hist >>

(* withRetry(fn, opts) is entered: attempt = 1, lastError undefined.       *)
InitRetry ==
  /\ ExecutorParked
  /\ pl = PlannerIdle
  /\ \E m \in 0 .. MaxAttemptsBound, k \in 0 .. MaxFailures,
        b \in BaseDelays, c \in MaxDelays :
       rt = [RetryIdle EXCEPT !.pos = "loop", !.maxAttempts = m,
                              !.failures = k, !.baseDelayMs = b,
                              !.maxDelayMs = c, !.attempt = 1]

(* for (...; attempt <= maxAttempts; ...): the body runs, fn is invoked.   *)
RetryAttempt ==
  /\ rt.pos = "loop"
  /\ rt.attempt <= rt.maxAttempts
  /\ rt' = [rt EXCEPT !.pos = "call", !.calls = @ + 1]
  /\ UNCHANGED << executorVars, pl >>

(* The loop condition fails: throw lastError.                              *)
RetryExhausted ==
  /\ rt.pos = "loop"
  /\ rt.attempt > rt.maxAttempts
  /\ rt' = [rt EXCEPT !.pos = "threw", !.thrown = rt.lastError]
  /\ UNCHANGED << executorVars, pl >>

(* await fn() completes: return its value, or catch the error, break on    *)
(* the last attempt (throw lastError), otherwise compute the delay and     *)
(* sleep.                                                                  *)
RetryFnDone ==
  /\ rt.pos = "call"
  /\ LET o == FnOutcome(rt.calls, rt.failures)
     IN IF o.kind = "return"
          THEN rt' = [rt EXCEPT !.pos = "returned", !.value = o.value]
          ELSE IF IsLastAttempt(rt.attempt, rt.maxAttempts)
            THEN rt' = [rt EXCEPT !.pos = "threw", !.lastError = o.error,
                                  !.thrown = o.error]
            ELSE rt' = [rt EXCEPT !.pos = "sleep", !.lastError = o.error,
                                  !.waits = Append(@,
                                     RetryDelay(rt.attempt, rt.baseDelayMs,
                                                rt.maxDelayMs))]
  /\ UNCHANGED << executorVars, pl >>

(* The sleep is over: attempt++ and the loop condition is tested again.    *)
RetrySleepDone ==
  /\ rt.pos = "sleep"
  /\ rt' = [rt EXCEPT !.pos = "loop", !.attempt = @ + 1]
  /\ UNCHANGED << executorVars, pl >>

NextRetry == RetryAttempt \/ RetryExhausted \/ RetryFnDone \/ RetrySleepDone

SpecRetry == InitRetry /\ [][NextRetry]_vars

RetryOver == rt.pos \in {"returned", "threw"}

(* C11: withRetry returns the operation's value exactly when maxAttempts   *)
(* exceeds the number K of leading failures, invokes the operation exactly *)
(* min(K + 1, maxAttempts) times, and on failure throws the error of the   *)
(* last attempt made.                                                      *)
C11_RetryOutcome ==
  RetryOver =>
    /\ (rt.pos = "returned") <=> (rt.maxAttempts > rt.failures)
    /\ rt.calls = Min(rt.failures + 1, rt.maxAttempts)
    /\ rt.pos = "returned" => rt.value = FnValue
    /\ (rt.pos = "threw" /\ rt.calls > 0) =>
         rt.thrown = FnOutcome(rt.calls, rt.failures).error

(* Two attempts failed, the third succeeded; and: three attempts failed    *)
(* with maxAttempts = 3, the third error was thrown.                       *)
C11_Witness ==
  /\ RetryOver
  /\ rt.maxAttempts = 3
  /\ \/ rt.failures = 2 /\ rt.pos = "returned" /\ rt.calls = 3
     \/ rt.failures = 3 /\ rt.pos = "threw" /\ rt.thrown = 3

RECURSIVE BackoffSum(_, _, _), SumSeq(_)

(* min(K, maxAttempts - 1) waits are made by a finished call.              *)
WaitsOf(k, m) == IF Min(k, m - 1) < 0 THEN 0 ELSE Min(k, m - 1)

BackoffSum(n, base, cap) ==
  IF n <= 0 THEN 0
  ELSE Min(base * 2 ^ (n - 1), cap) + BackoffSum(n - 1, base, cap)

SumSeq(q) == IF q = << >> THEN 0 ELSE Head(q) + SumSeq(Tail(q))

(* C12: the wait after failed attempt a < maxAttempts is                   *)
(* min(baseDelayMs * 2^(a-1), maxDelayMs); there is no wait after the      *)
(* final attempt or after a success; the total waited by a finished call   *)
(* is the sum of min(baseDelayMs * 2^i, maxDelayMs) for                    *)
(* i = 0 .. min(K, maxAttempts - 1) - 1.                                   *)
C12_RetryBackoff ==
  /\ \A i \in 1 .. Len(rt.waits) :
       rt.waits[i] = Min(rt.baseDelayMs * 2 ^ (i - 1), rt.maxDelayMs)
  /\ rt.pos = "sleep" =>
       /\ rt.attempt < rt.maxAttempts
       /\ rt.attempt <= rt.failures
       /\ Len(rt.waits) = rt.attempt
  /\ rt.pos \in {"loop", "call"} => Len(rt.waits) = rt.attempt - 1
  /\ RetryOver =>
       /\ Len(rt.waits) = WaitsOf(rt.failures, rt.maxAttempts)
       /\ SumSeq(rt.waits) =
            BackoffSum(WaitsOf(rt.failures, rt.maxAttempts),
                       rt.baseDelayMs, rt.maxDelayMs)

(* Three failures with maxAttempts = 3, base 3 and cap 4: the waits are    *)
(* 3 and 4 (capped), and none follows the third failure.                   *)
C12_Witness ==
  /\ rt.pos = "threw"
  /\ rt.maxAttempts = 3 /\ rt.failures = 3
  /\ rt.baseDelayMs = 3 /\ rt.maxDelayMs = 4
  /\ rt.waits = << 3, 4 >>

(* C13: per node, the callbacks of a run are none at all (the node was     *)
(* never dispatched and is skipped or pending) or one onNodeStart followed *)
(* by one onNodeEnd carrying the result recorded for the node; onNodeEnd   *)
(* never precedes onNodeStart and neither is called twice.                 *)
C13_LifecycleCallbacks ==
  \A n \in Nodes :
    /\ hist[n].starts <= 1
    /\ hist[n].ends <= hist[n].starts
    /\ hist[n].ends = 1 =>
         /\ hist[n].ended = result[n]
         /\ hist[n].ended = nodeResults[n]
         /\ result[n] # NoResult
    /\ hist[n].ends = 0 => hist[n].ended = NoResult
    /\ pc = "returned" =>
         /\ hist[n].ends = hist[n].starts
         /\ hist[n].starts = 0 <=> status[n] \in {"skipped", "pending"}
         /\ hist[n].starts = 1 <=> status[n] \in {"done", "failed"}

(* A run returned with a node whose promise was rejected (started, ended   *)
(* with the error result), a node that ended ok, and a node without any    *)
(* callback.                                                               *)
C13_Witness ==
  /\ pc = "returned"
  /\ \E n \in Nodes : /\ exec[n].pos = "rejected"
                       /\ hist[n].starts = 1 /\ hist[n].ends = 1
                       /\ hist[n].ended = Err(StringOf(exec[n].reason))
  /\ \E n \in Nodes : hist[n].ends = 1 /\ hist[n].ended.status = "ok"
  /\ \E n \in Nodes : hist[n].starts = 0 /\ hist[n].ends = 0

(* ===================== Planner.plan checked on its own ================= *)
(* The nodes an LLM may put in its response: the id and the task may be    *)
(* empty strings, the dependencies name ids that may or may not exist.     *)
PlanIds == {"a", "b"}
PlanNodes == [id : PlanIds \cup {""}, task : {"", "t"}, dependsOn : SUBSET PlanIds]

(* The documents an LLM may answer with: text that is not JSON, JSON       *)
(* without a nodes array, and JSON with a nodes array of k nodes.          *)
NotJson == [json |-> FALSE, hasNodes |-> FALSE, nodes |-> << >>]
JsonNoNodes == [json |-> TRUE, hasNodes |-> FALSE, nodes |-> << >>]
JsonNodes(ns) == [json |-> TRUE, hasNodes |-> TRUE, nodes |-> ns]
PlanDocs(k) ==
  IF k = 0 THEN {NotJson, JsonNoNodes, JsonNodes(<< >>)}
  ELSE {JsonNodes(ns) : ns \in [1 .. k -> PlanNodes]}

(* The raw response, line by line: a line is a fence marker (three         *)
(* backquotes, alone or followed by json) or a document.                   *)
Fence == [kind |-> "fence", doc |-> NotJson]
FenceJson == [kind |-> "fencejson", doc |-> NotJson]
DocLine(d) == [kind |-> "doc", doc |-> d]
IsFenceLine(l) == l.kind \in {"fence", "fencejson"}
(* The ways a document comes wrapped: bare, in a json fence, in a plain    *)
(* fence, with only a closing or only an opening marker, and with two      *)
(* opening markers.                                                        *)
RawTexts(d) ==
  {<< DocLine(d) >>, << FenceJson, DocLine(d), Fence >>,
   << Fence, DocLine(d), Fence >>, << DocLine(d), Fence >>,
   << FenceJson, DocLine(d) >>, << Fence, FenceJson, DocLine(d), Fence >>}

(* String.prototype.replace with a regular expression that has no g flag:  *)
(* the first of the lines that match (hits: their indices) is removed.     *)
RemoveFirst(lines, hits) ==
  IF hits = {} THEN lines
  ELSE LET i == CHOOSE j \in hits : \A h \in hits : j <= h
       IN SubSeq(lines, 1, i - 1) \o SubSeq(lines, i + 1, Len(lines))

IsClosingFence(l) == l.kind = "fence"

(* cleaned: the first line that starts with a fence marker (with or        *)
(* without json) is removed, then the first line that is a bare fence      *)
(* marker, then the text is trimmed.                                       *)
Cleaned(raw) ==
  LET opened == RemoveFirst(raw, {i \in 1 .. Len(raw) : IsFenceLine(raw[i])})
  IN RemoveFirst(opened,
                 {i \in 1 .. Len(opened) : IsClosingFence(opened[i])})

(* JSON.parse(cleaned) succeeds when what is left is one JSON document.    *)
JsonParses(cleaned) ==
  Len(cleaned) = 1 /\ ~IsFenceLine(cleaned[1]) /\ cleaned[1].doc.json

(* PlannerResponseSchema.safeParse(parsed).success: a nodes array of at    *)
(* least one node, every id and task a non-empty string.                   *)
SchemaAccepts(doc) ==
  /\ doc.hasNodes
  /\ Len(doc.nodes) >= 1
  /\ \A i \in 1 .. Len(doc.nodes) : doc.nodes[i].id # "" /\ doc.nodes[i].task # ""

(* createTaskGraph rejects duplicate ids, a dangling dependency, a cycle.  *)
DuplicateIds(ns) == \E i, j \in 1 .. Len(ns) : i # j /\ ns[i].id = ns[j].id
Dangling(ns) ==
  \E i \in 1 .. Len(ns) : \E d \in ns[i].dependsOn :
     \A j \in 1 .. Len(ns) : ns[j].id # d
DepsById(ns) ==
  [x \in {ns[i].id : i \in 1 .. Len(ns)} |->
     UNION {ns[i].dependsOn : i \in {j \in 1 .. Len(ns) : ns[j].id = x}}]
GraphInvalid(ns) ==
  DuplicateIds(ns) \/ Dangling(ns) \/ ~Acyclic(DepsById(ns))

(* What the configured LLM source does when called.  The planner agent     *)
(* returns an ok result (the text), returns an error result, or raises an  *)
(* error of its own (untagged, or tagged by the adapter); the gateway's    *)
(* chat returns the text or fails with a GATEWAY_* error.                  *)
GatewayErrors == {"GATEWAY_TIMEOUT", "GATEWAY_CONNECTION_FAILED",
                  "GATEWAY_PROTOCOL_ERROR"}
RaisedByAgent == {"UNTAGGED", "AGENT_EXECUTION_FAILED"}
LlmText(r) == [kind |-> "text", raw |-> r, error |-> ""]
AgentFailures ==
  {[kind |-> "errorResult", raw |-> << >>, error |-> ""]}
    \cup {[kind |-> "raise", raw |-> << >>, error |-> e] : e \in RaisedByAgent}
GatewayFailures ==
  {[kind |-> "raise", raw |-> << >>, error |-> e] : e \in GatewayErrors}

(* plan(goal) is entered, the planner built with a planner agent, a        *)
(* gateway, both or neither; llm is the behaviour of the source callLlm    *)
(* uses.                                                                   *)
InitPlanner ==
  /\ ExecutorParked
  /\ rt = RetryIdle
  /\ \E a \in BOOLEAN, g \in BOOLEAN :
       \/ \E l \in (IF a THEN AgentFailures
                    ELSE IF g THEN GatewayFailures ELSE {NoLlm}) :
            pl = [PlannerIdle EXCEPT !.pos = "callLlm", !.hasAgent = a,
                                     !.hasGateway = g, !.llm = l]
       \/ /\ a \/ g
          /\ \E k \in 0 .. MaxPlanNodes : \E d \in PlanDocs(k) :
               \E r \in RawTexts(d) :
                 pl = [PlannerIdle EXCEPT !.pos = "callLlm", !.hasAgent = a,
                                          !.hasGateway = g, !.llm = LlmText(r)]

PlanThrow(kind) == [pl EXCEPT !.pos = "threw", !.error = kind]

(* callLlm: the planner agent first, then the gateway, else ConfigError.   *)
(* A result of the agent that is not ok becomes an AgentError; an error    *)
(* raised by plannerAgent.execute or by gateway.chat is not caught.        *)
PlanCallLlm ==
  /\ pl.pos = "callLlm"
  /\ pl' = IF pl.hasAgent
             THEN CASE pl.llm.kind = "text" ->
                         [pl EXCEPT !.pos = "parse", !.raw = pl.llm.raw]
                    [] pl.llm.kind = "errorResult" ->
                         PlanThrow("AGENT_EXECUTION_FAILED")
                    [] OTHER -> PlanThrow(pl.llm.error)
           ELSE IF pl.hasGateway
             THEN IF pl.llm.kind = "text"
                    THEN [pl EXCEPT !.pos = "parse", !.raw = pl.llm.raw]
                    ELSE PlanThrow(pl.llm.error)
             ELSE PlanThrow("CONFIG_MISSING")
  /\ UNCHANGED << executorVars, rt >>

(* parseResponse: strip the fences, JSON.parse (ParseError), parseOrThrow  *)
(* (ValidationError "VALIDATION_FAILED").                                  *)
PlanParse ==
  /\ pl.pos = "parse"
  /\ LET cleaned == Cleaned(pl.raw)
     IN pl' = IF ~JsonParses(cleaned) THEN PlanThrow("PARSE_FAILED")
              ELSE IF ~SchemaAccepts(cleaned[1].doc) THEN PlanThrow("VALIDATION_FAILED")
              ELSE [pl EXCEPT !.pos = "create", !.nodes = cleaned[1].doc.nodes]
  /\ UNCHANGED << executorVars, rt >>

(* return createTaskGraph(goal, parsed.nodes, parsed.synthesizerPrompt)    *)
PlanCreate ==
  /\ pl.pos = "create"
  /\ pl' = IF GraphInvalid(pl.nodes) THEN PlanThrow("GRAPH_INVALID")
           ELSE [pl EXCEPT !.pos = "returned"]
  /\ UNCHANGED << executorVars, rt >>

NextPlanner == PlanCallLlm \/ PlanParse \/ PlanCreate

SpecPlanner == InitPlanner /\ [][NextPlanner]_vars

FourKinds == {"PARSE_FAILED", "VALIDATION_FAILED", "AGENT_EXECUTION_FAILED",
              "CONFIG_MISSING"}

(* C14, for a planner agent whose execute raises: plan fails with one of   *)
(* PARSE_FAILED, VALIDATION_FAILED, AGENT_EXECUTION_FAILED,                *)
(* CONFIG_MISSING. AGENT_EXECUTION_FAILED is the kind the error taxonomy   *)
(* gives to an agent adapter that raised, so this is the kind the failure  *)
(* has to carry.                                                           *)
C14_RaiseIsTagged ==
  (pl.pos = "threw" /\ pl.hasAgent /\ pl.llm.kind = "raise")
    => pl.error \in FourKinds

(* The planner agent's execute raised a plain error and plan failed with   *)
(* that error, which carries no kind: callLlm awaits execute outside any   *)
(* try block and builds an AgentError only for a result that is not ok.    *)
C14_Witness ==
  /\ pl.pos = "threw"
  /\ pl.hasAgent
  /\ pl.llm.kind = "raise"
  /\ pl.error = "UNTAGGED"

(* Node n went as far as the agent: it was dispatched, an agent was        *)
(* resolved and the cache did not answer.                                  *)
Ran(n) ==
  Dispatched(n) /\ ResolveAgent(agents, assignTo[n]) # NoAgent /\ ~hist[n].hit

ExecOver(n) == exec[n].pos \in {"fulfilled", "rejected"}

(* C15: a dispatched node without cache hit invokes the agent once when    *)
(* its retries are absent or 0 (a raise rejects at once), and at most      *)
(* retries + 1 times otherwise: every invocation but the last raised, the  *)
(* execution is rejected exactly when retries + 1 invocations raised, and  *)
(* an invocation that returns (ok or error) is the last one.               *)
C15_ExecutorRetryCount ==
  \A n \in Nodes :
    Ran(n) =>
      /\ hist[n].calls <= retries[n] + 1
      /\ hist[n].raises <= hist[n].calls
      /\ ExecOver(n) =>
           /\ hist[n].calls >= 1
           /\ retries[n] = 0 => hist[n].calls = 1
           /\ exec[n].pos = "rejected" =>
                hist[n].raises = hist[n].calls /\ hist[n].calls = retries[n] + 1
           /\ exec[n].pos = "fulfilled" => hist[n].raises = hist[n].calls - 1
      /\ (Settled(n) /\ exec[n].pos = "fulfilled" /\ exec[n].result.status = "ok")
           => status[n] = "done"

(* Scenario S5: retries = 2, the agent raised on attempts 1 and 2 and      *)
(* returned ok on the third; the node is done after 3 invocations.         *)
C15_Witness ==
  \E n \in Nodes :
    /\ retries[n] = 2
    /\ hist[n].raises = 2 /\ hist[n].calls = 3
    /\ status[n] = "done" /\ result[n].status = "ok"

(* A step stores a value under key k: an invocation of the agent for a     *)
(* node of that key returns ok with that value, and the cache is enabled.  *)
CacheWriteRule ==
  \A k \in CacheKeys :
    (cache'[k] # cache[k] /\ cache'[k] # Absent) =>
      /\ cacheEnabled
      /\ \E n \in Nodes :
           /\ KeyOf(n) = k
           /\ exec[n].pos = "call" /\ exec'[n].pos = "fulfilled"
           /\ exec'[n].result = Ok(cache'[k])
           /\ hist'[n].calls >= 1

(* A step dispatches node n while the cache holds a fresh entry for its    *)
(* key (the get does not drop it): the execution is fulfilled at once with *)
(* ok(entry), no acquire and no invocation made; and a node fulfilled ok   *)
(* at its dispatch was answered by such an entry.                          *)
CacheHitRule ==
  \A n \in Nodes :
    (hist'[n].starts = hist[n].starts + 1) =>
      LET key == KeyOf(n)
          held == /\ cacheEnabled
                  /\ ResolveAgent(agents, assignTo[n]) # NoAgent
                  /\ cache[key] # Absent /\ cache'[key] = cache[key]
          served == exec'[n].pos = "fulfilled" /\ exec'[n].result.status = "ok"
      IN /\ held <=> served
         /\ served => /\ exec'[n].result = Ok(cache[key])
                       /\ hist'[n].hit
                       /\ hist'[n].acquires = 0 /\ hist'[n].calls = 0

(* C16: the cache is written only with the output of an ok result of an    *)
(* invocation of the agent, never for an error result or a raise, never    *)
(* while it is disabled; a fresh hit returns ok(cached value) without      *)
(* acquire and without invocation of the agent.                            *)
C16_CacheDiscipline ==
  /\ [](~cacheEnabled => \A k \in CacheKeys : cache[k] = Absent)
  /\ [](\A n \in Nodes : hist[n].hit =>
          /\ hist[n].acquires = 0 /\ hist[n].calls = 0
          /\ exec[n].pos = "fulfilled" /\ exec[n].result.status = "ok")
  /\ [][CacheWriteRule /\ CacheHitRule]_vars

(* With the rate limiter on: a node was answered by the cache, with the    *)
(* value an invocation for another node of the same key had stored, and    *)
(* made neither an acquire nor an invocation.                              *)
C16_Witness ==
  /\ rateLimitEnabled /\ cacheEnabled
  /\ \E n, m \in Nodes :
       /\ n # m /\ KeyOf(n) = KeyOf(m)
       /\ hist[n].calls = 1 /\ hist[n].acquires = 1
       /\ hist[m].hit /\ hist[m].acquires = 0 /\ hist[m].calls = 0
       /\ result[m] = result[n] /\ result[m].status = "ok"

(* C17: whenever the scheduling loop is at its top, every node is terminal *)
(* or pending, and if the graph is not complete some pending node has all  *)
(* its dependencies done; the deadlock exit is never taken.                *)
C17_DeadlockUnreachable ==
  /\ exit # "deadlock"
  /\ maxConcurrency >= 1
  /\ pc = "loop" =>
       /\ \A n \in Nodes : status[n] \in Terminal \cup {"pending"}
       /\ ~isComplete(status) =>
            /\ readyNodes(status, deps) # << >>
            /\ \E n \in Nodes : /\ status[n] = "pending"
                                 /\ \A m \in deps[n] : status[m] = "done"

(* The top of the loop after a failure: a node failed, its dependant was   *)
(* skipped, and a node is still pending and ready.                         *)
C17_Witness ==
  /\ pc = "loop"
  /\ iteration >= 1
  /\ WithStatus("failed") # {}
  /\ WithStatus("skipped") # {}
  /\ WithStatus("pending") # {}
  /\ readyNodes(status, deps) # << >>

(* A step writes the status or the result of a node.                       *)
GraphWrite == status' # status \/ result' # result

(* The executions that are suspended: waiting for the rate limiter, for    *)
(* the agent, or for a backoff sleep.                                      *)
InFlight == {n \in Nodes : exec[n].pos \in {"acquire", "call", "sleep"}}

(* A batch is outstanding: its first node has been dispatched and execute  *)
(* has not yet resumed from Promise.allSettled.                            *)
BatchOutstanding == (pc = "dispatch" /\ idx > 1) \/ pc = "await"

(* The write at the start of executeNode: the node being dispatched goes   *)
(* from pending to running, nothing else is written.                       *)
MarkRunning ==
  /\ pc = "dispatch" /\ idx <= Len(batch)
  /\ exec[batch[idx]].pos = "idle"
  /\ status[batch[idx]] = "pending"
  /\ status' = [status EXCEPT ![batch[idx]] = "running"]
  /\ result' = result

(* C18 as stated: no status or result of a node is written between the     *)
(* dispatch of a batch and the settlement of all its nodes.                *)
C18_NoWriteWhileOutstanding == [][GraphWrite => ~BatchOutstanding]_vars

(* C18: a status or result is written only (a) by the synchronous start of *)
(* executeNode, which marks the node being dispatched running while        *)
(* earlier nodes of the batch may already be in flight, or (b) by the      *)
(* scheduling loop (settle loop, abort branch) while no execution is in    *)
(* flight; nothing is written while execute waits for the batch, and the   *)
(* resumed parts of the executions write nothing.                          *)
C18_GraphMutationPoints ==
  [][GraphWrite =>
       \/ MarkRunning
       \/ pc \in {"loop", "settle"} /\ InFlight = {}]_vars

(* execute waits for a batch of two: one execution is already fulfilled    *)
(* and its node still running without result, the other is in flight.      *)
C18_Witness ==
  /\ pc = "await"
  /\ \E n, m \in Nodes :
       /\ exec[n].pos = "fulfilled"
       /\ status[n] = "running" /\ result[n] = NoResult
       /\ m \in InFlight /\ status[m] = "running"

(* C19: when execute returns, nodeResults has an entry exactly for the     *)
(* nodes that are done or failed; the entry is the node's result, ok       *)
(* exactly when the node is done; skipped and pending nodes have neither   *)
(* entry nor result.                                                       *)
C19_ResultMapConsistency ==
  pc = "returned" =>
    \A n \in Nodes :
      /\ nodeResults[n] # NoResult <=> status[n] \in {"done", "failed"}
      /\ status[n] \in {"done", "failed"} =>
           /\ nodeResults[n] = result[n]
           /\ result[n].status \in {"ok", "error"}
           /\ result[n].status = "ok" <=> status[n] = "done"
      /\ status[n] \in {"skipped", "pending"} =>
           nodeResults[n] = NoResult /\ result[n] = NoResult

(* A run returned with a done node, a node failed by a rejected promise    *)
(* (the synthetic error result is in the map) and a skipped node.          *)
C19_Witness ==
  /\ pc = "returned"
  /\ \E n \in Nodes : status[n] = "done" /\ nodeResults[n].status = "ok"
  /\ \E n \in Nodes : /\ status[n] = "failed" /\ exec[n].pos = "rejected"
                       /\ nodeResults[n] = Err(StringOf(exec[n].reason))
  /\ \E n \in Nodes : status[n] = "skipped" /\ nodeResults[n] = NoResult

(* C20: a dispatched node makes at most one acquire, before its first      *)
(* invocation of the agent and only with rate limiting enabled; the        *)
(* attempts of withRetry invoke the agent again without acquire, up to     *)
(* retries + 1 invocations for the one token.                              *)
C20_AcquireOncePerNode ==
  \A n \in Nodes :
    /\ hist[n].acquires <= 1
    /\ ~rateLimitEnabled => hist[n].acquires = 0
    /\ exec[n].pos = "acquire" => hist[n].acquires = 1 /\ hist[n].calls = 0
    /\ (rateLimitEnabled /\ hist[n].calls >= 1) => hist[n].acquires = 1
    /\ (rateLimitEnabled /\ Dispatched(n) /\ ~Ran(n)) => hist[n].acquires = 0
    /\ hist[n].calls <= (retries[n] + 1) * (IF Ran(n) THEN 1 ELSE 0)

(* With rate limiting enabled and retries = 2: one acquire, three          *)
(* invocations of the agent.                                               *)
C20_Witness ==
  /\ rateLimitEnabled
  /\ \E n \in Nodes :
       /\ retries[n] = 2
       /\ hist[n].acquires = 1 /\ hist[n].calls = 3 /\ hist[n].raises = 3
       /\ exec[n].pos = "rejected"
====
